---- MODULE Spec2Model ----
(***************************************************************************)
(* Model of the marketplace backend's route handlers:                      *)
(*   src/unnamed/part_000            the /api/vehicles router              *)
(*   src/server/routes/materials.js  the /api/materials router             *)
(*   src/server/routes/users.js      the /api/users router                 *)
(*                                                                         *)
(* JavaScript objects are TLA+ functions over their property names, so an  *)
(* absent property is a name outside the DOMAIN.  A request body carries   *)
(* the properties the handlers and the ownership rules read (the price     *)
(* field and the owner field); the other required properties of a create   *)
(* body (name, description, category, ...) are taken as present and valid. *)
(* The storage calls of the catalog handlers are taken to answer; their    *)
(* catch blocks (a 500 in the same envelope) are not reached.              *)
(***************************************************************************)
EXTENDS Integers, Sequences, FiniteSets, TLC

VARIABLES
    vehicles,        \* the Vehicle table: primary key -> row
    materials,       \* the Material table: primary key -> row
    vehicleSeq,      \* primary keys the Vehicle table has handed out
    materialSeq,     \* primary keys the Material table has handed out
    req,             \* the catalog request handled last
    resp,            \* the response to it
    lastQuery,       \* the options handed to findAndCountAll by that request
    users,           \* the User table: primary key -> row
    serviceRequests, \* the ServiceRequest table: a set of rows
    inflight         \* the /api/users requests being handled, and their responses

tables == <<vehicles, materials, vehicleSeq, materialSeq>>
userVars == <<users, serviceRequests, inflight>>
vars == <<vehicles, materials, vehicleSeq, materialSeq, req, resp, lastQuery,
          users, serviceRequests, inflight>>

(***************************************************************************)
(* Bounds and input sets                                                   *)
(***************************************************************************)
\* Rows created (over both tables) in one behaviour.
MaxCreated == 2

\* req.user.partnerId of the acting principals (auth and partnerAuth passed).
Partners == {"p1", "p2"}

\* Price values a JSON body carries.
Prices == {-5, 10}

\* The empty object {}.
EmptyObject == <<>>

\* {} or {f: v} for v in S.
Optional(f, S) == {EmptyObject} \cup {f :> v : v \in S}

VehicleBodies ==
    {a @@ b : a \in Optional("pricePerHour", Prices), b \in Optional("ownerId", Partners)}

MaterialBodies ==
    {a @@ b : a \in Optional("pricePerUnit", Prices), b \in Optional("supplierId", Partners)}

\* isAvailable as the JSON token the body carries.
AvailabilityBodies == Optional("isAvailable", {"true", "yes"})

NoRequest == [route |-> "none"]
NoResponse == [status |-> 0]

(***************************************************************************)
(* Object helpers                                                          *)
(***************************************************************************)
\* {...a, ...b}: b's properties override a's.
Spread(a, b) ==
    [f \in DOMAIN a \cup DOMAIN b |-> IF f \in DOMAIN b THEN b[f] ELSE a[f]]

\* instance.update(values): the supplied properties change, the others stay.
UpdateRow(row, values) == Spread(row, values)

\* A property of an object, or the empty object when it has none.
Has(obj, f) == f \in DOMAIN obj

(***************************************************************************)
(* express-validator chains                                                *)
(***************************************************************************)
\* body(f).isFloat({ min: 0 })
IsFloatMin0(b, f) == Has(b, f) /\ b[f] >= 0

\* body(f).optional().isFloat({ min: 0 })
OptionalIsFloatMin0(b, f) == Has(b, f) => b[f] >= 0

\* body(f).isBoolean()
IsBoolean(b, f) == Has(b, f) /\ b[f] \in {"true", "false", "1", "0"}

\* validationResult(req) of POST /api/vehicles: the fields in violation.
VehicleCreateErrors(b) ==
    {f \in {"pricePerHour"} : ~IsFloatMin0(b, f)}

\* validationResult(req) of POST /api/materials.
MaterialCreateErrors(b) ==
    {f \in {"pricePerUnit"} : ~IsFloatMin0(b, f)}

\* validationResult(req) of PUT /api/materials/:id.
MaterialUpdateErrors(b) ==
    {f \in {"pricePerUnit"} : ~OptionalIsFloatMin0(b, f)}

\* PUT /api/vehicles/:id declares no validation chain.
VehicleUpdateErrors(b) == {}

\* validationResult(req) of POST /api/vehicles/:id/availability.
AvailabilityErrors(b) ==
    {f \in {"isAvailable"} : ~IsBoolean(b, f)}

(***************************************************************************)
(* Responses                                                               *)
(***************************************************************************)
\* res.status(400).json({ success: false, message: 'Validation failed', errors })
ValidationFailed(errs) ==
    [status |-> 400, kind |-> "json",
     body |-> [success |-> FALSE, message |-> "Validation failed", errors |-> errs]]

\* res.status(code).json({ success: false, message })
Failure(code, msg) ==
    [status |-> code, kind |-> "json", body |-> [success |-> FALSE, message |-> msg]]

\* res.status(code).json({ success: true, message, data })
SuccessData(code, msg, row) ==
    [status |-> code, kind |-> "json",
     body |-> [success |-> TRUE, message |-> msg, data |-> row]]

\* res.json({ success: true, message })
SuccessMessage(msg) ==
    [status |-> 200, kind |-> "json", body |-> [success |-> TRUE, message |-> msg]]

Created == vehicleSeq + materialSeq

(***************************************************************************)
(* /api/vehicles: the mutating endpoints                                   *)
(***************************************************************************)
\* { ...req.body, ownerId } written the other way round: the body's ownerId wins.
vehicleDataBodyWins(p, b) == Spread([ownerId |-> p], b)

\* { ...req.body, ownerId: req.user.partnerId }
vehicleData(p, b) == Spread(b, [ownerId |-> p])

\* router.post('/')
PostVehicle(p, b) ==
    /\ req' = [route |-> "POST /vehicles", user |-> p, id |-> 0, body |-> b]
    /\ UNCHANGED <<lastQuery, userVars>>
    /\ LET errs == VehicleCreateErrors(b)
           id == vehicleSeq + 1
       IN  IF errs # {}
           THEN /\ resp' = ValidationFailed(errs)
                /\ UNCHANGED tables
           ELSE /\ Created < MaxCreated
                /\ vehicles' = (id :> vehicleData(p, b)) @@ vehicles
                /\ vehicleSeq' = id
                /\ resp' = SuccessData(201, "Vehicle created successfully",
                                       vehicleData(p, b))
                /\ UNCHANGED <<materials, materialSeq>>

\* router.put('/:id')
PutVehicle(p, id, b) ==
    /\ req' = [route |-> "PUT /vehicles/:id", user |-> p, id |-> id, body |-> b]
    /\ UNCHANGED <<lastQuery, userVars>>
    /\ UNCHANGED <<materials, vehicleSeq, materialSeq>>
    /\ IF VehicleUpdateErrors(b) # {}
       THEN /\ resp' = ValidationFailed(VehicleUpdateErrors(b))
            /\ UNCHANGED vehicles
       ELSE IF id \notin DOMAIN vehicles
       THEN /\ resp' = Failure(404, "Vehicle not found")
            /\ UNCHANGED vehicles
       ELSE IF vehicles[id].ownerId # p
       THEN /\ resp' = Failure(403, "Not authorized to update this vehicle")
            /\ UNCHANGED vehicles
       ELSE /\ vehicles' = [vehicles EXCEPT ![id] = UpdateRow(@, b)]
            /\ resp' = SuccessData(200, "Vehicle updated successfully",
                                   UpdateRow(vehicles[id], b))

\* instance.destroy(): the table without the row of primary key id.
Destroy(table, id) == [k \in DOMAIN table \ {id} |-> table[k]]

\* router.delete('/:id') with destroy() issued before the owner check.
DeleteVehicleDestroyFirst(p, id) ==
    /\ req' = [route |-> "DELETE /vehicles/:id", user |-> p, id |-> id, body |-> EmptyObject]
    /\ UNCHANGED <<lastQuery, userVars>>
    /\ UNCHANGED <<materials, vehicleSeq, materialSeq>>
    /\ IF id \notin DOMAIN vehicles
       THEN /\ resp' = Failure(404, "Vehicle not found")
            /\ UNCHANGED vehicles
       ELSE /\ vehicles' = Destroy(vehicles, id)
            /\ resp' = IF vehicles[id].ownerId # p
                       THEN Failure(403, "Not authorized to delete this vehicle")
                       ELSE SuccessMessage("Vehicle deleted successfully")

\* router.delete('/:id')
DeleteVehicle(p, id) ==
    /\ req' = [route |-> "DELETE /vehicles/:id", user |-> p, id |-> id, body |-> EmptyObject]
    /\ UNCHANGED <<lastQuery, userVars>>
    /\ UNCHANGED <<materials, vehicleSeq, materialSeq>>
    /\ IF id \notin DOMAIN vehicles
       THEN /\ resp' = Failure(404, "Vehicle not found")
            /\ UNCHANGED vehicles
       ELSE IF vehicles[id].ownerId # p
       THEN /\ resp' = Failure(403, "Not authorized to delete this vehicle")
            /\ UNCHANGED vehicles
       ELSE /\ vehicles' = Destroy(vehicles, id)
            /\ resp' = SuccessMessage("Vehicle deleted successfully")

\* { ...req.body } of router.post('/:id/availability')
availabilityData(b) == Spread(EmptyObject, b)

\* router.post('/:id/availability')
PostAvailability(p, id, b) ==
    /\ req' = [route |-> "POST /vehicles/:id/availability", user |-> p, id |-> id, body |-> b]
    /\ UNCHANGED <<lastQuery, userVars>>
    /\ UNCHANGED <<materials, vehicleSeq, materialSeq>>
    /\ LET errs == AvailabilityErrors(b)
       IN  IF errs # {}
           THEN /\ resp' = ValidationFailed(errs)
                /\ UNCHANGED vehicles
           ELSE IF id \notin DOMAIN vehicles
           THEN /\ resp' = Failure(404, "Vehicle not found")
                /\ UNCHANGED vehicles
           ELSE IF vehicles[id].ownerId # p
           THEN /\ resp' = Failure(403, "Not authorized to update this vehicle")
                /\ UNCHANGED vehicles
           ELSE LET updated == UpdateRow(vehicles[id], [availability |-> availabilityData(b)])
                IN  /\ vehicles' = [vehicles EXCEPT ![id] = updated]
                    /\ resp' = SuccessData(200, "Vehicle availability updated successfully",
                                           updated)

(***************************************************************************)
(* /api/materials: the mutating endpoints                                  *)
(***************************************************************************)
\* { ...req.body, supplierId: req.user.partnerId }
materialData(p, b) == Spread(b, [supplierId |-> p])

\* router.post('/')
PostMaterial(p, b) ==
    /\ req' = [route |-> "POST /materials", user |-> p, id |-> 0, body |-> b]
    /\ UNCHANGED <<lastQuery, userVars>>
    /\ LET errs == MaterialCreateErrors(b)
           id == materialSeq + 1
       IN  IF errs # {}
           THEN /\ resp' = ValidationFailed(errs)
                /\ UNCHANGED tables
           ELSE /\ Created < MaxCreated
                /\ materials' = (id :> materialData(p, b)) @@ materials
                /\ materialSeq' = id
                /\ resp' = SuccessData(201, "Material created successfully",
                                       materialData(p, b))
                /\ UNCHANGED <<vehicles, vehicleSeq>>

\* router.put('/:id')
PutMaterial(p, id, b) ==
    /\ req' = [route |-> "PUT /materials/:id", user |-> p, id |-> id, body |-> b]
    /\ UNCHANGED <<lastQuery, userVars>>
    /\ UNCHANGED <<vehicles, vehicleSeq, materialSeq>>
    /\ LET errs == MaterialUpdateErrors(b)
       IN  IF errs # {}
           THEN /\ resp' = ValidationFailed(errs)
                /\ UNCHANGED materials
           ELSE IF id \notin DOMAIN materials
           THEN /\ resp' = Failure(404, "Material not found")
                /\ UNCHANGED materials
           ELSE IF materials[id].supplierId # p
           THEN /\ resp' = Failure(403, "Not authorized to update this material")
                /\ UNCHANGED materials
           ELSE /\ materials' = [materials EXCEPT ![id] = UpdateRow(@, b)]
                /\ resp' = SuccessData(200, "Material updated successfully",
                                       UpdateRow(materials[id], b))

\* router.delete('/:id')
DeleteMaterial(p, id) ==
    /\ req' = [route |-> "DELETE /materials/:id", user |-> p, id |-> id, body |-> EmptyObject]
    /\ UNCHANGED <<lastQuery, userVars>>
    /\ UNCHANGED <<vehicles, vehicleSeq, materialSeq>>
    /\ IF id \notin DOMAIN materials
       THEN /\ resp' = Failure(404, "Material not found")
            /\ UNCHANGED materials
       ELSE IF materials[id].supplierId # p
       THEN /\ resp' = Failure(403, "Not authorized to delete this material")
            /\ UNCHANGED materials
       ELSE /\ materials' = Destroy(materials, id)
            /\ resp' = SuccessMessage("Material deleted successfully")

(***************************************************************************)
(* Spec: the catalog's mutating endpoints, from empty tables               *)
(***************************************************************************)
\* Primary keys a request names: those handed out (deleted ones too), and 1 while
\* the table has handed out none.
VehicleIds == 1..vehicleSeq \cup {1}
MaterialIds == 1..materialSeq \cup {1}

NoQuery == [model |-> "none"]

Init ==
    /\ vehicles = EmptyObject
    /\ materials = EmptyObject
    /\ vehicleSeq = 0
    /\ materialSeq = 0
    /\ req = NoRequest
    /\ resp = NoResponse
    /\ lastQuery = NoQuery
    /\ users = EmptyObject
    /\ serviceRequests = {}
    /\ inflight = EmptyObject

Next ==
    \/ \E p \in Partners, b \in VehicleBodies : PostVehicle(p, b)
    \/ \E p \in Partners, id \in VehicleIds, b \in VehicleBodies : PutVehicle(p, id, b)
    \/ \E p \in Partners, id \in VehicleIds : DeleteVehicle(p, id)
    \/ \E p \in Partners, id \in VehicleIds, b \in AvailabilityBodies :
           PostAvailability(p, id, b)
    \/ \E p \in Partners, b \in MaterialBodies : PostMaterial(p, b)
    \/ \E p \in Partners, id \in MaterialIds, b \in MaterialBodies : PutMaterial(p, id, b)
    \/ \E p \in Partners, id \in MaterialIds : DeleteMaterial(p, id)

Spec == Init /\ [][Next]_vars

(***************************************************************************)
(* Properties of the mutating endpoints (checked under Spec)               *)
(***************************************************************************)
OwnerRoutes ==
    {"PUT /vehicles/:id", "DELETE /vehicles/:id", "POST /vehicles/:id/availability",
     "PUT /materials/:id", "DELETE /materials/:id"}

\* The request r names a row that exists and belongs to another partner.
NamesForeignRow(r) ==
    \/ /\ r.route \in {"PUT /vehicles/:id", "DELETE /vehicles/:id"}
       /\ r.id \in DOMAIN vehicles
       /\ vehicles[r.id].ownerId # r.user
    \/ /\ r.route \in {"PUT /materials/:id", "DELETE /materials/:id"}
       /\ r.id \in DOMAIN materials
       /\ materials[r.id].supplierId # r.user

\* C1: a PUT or DELETE that names an existing vehicle or material whose owner is not
\* the acting principal's partnerId is answered 403, whatever body it carries.
C1_NonOwnerIsForbidden ==
    [][NamesForeignRow(req') => resp'.status = 403]_vars

\* C2: after a successful POST the stored row's owner field (ownerId of a vehicle,
\* supplierId of a material) is the acting principal's partnerId, also when the body
\* carries an owner field of its own.
C2_CreatedOwnerIsPrincipal ==
    /\ (req.route = "POST /vehicles" /\ resp.status = 201) =>
           /\ vehicleSeq \in DOMAIN vehicles
           /\ vehicles[vehicleSeq].ownerId = req.user
    /\ (req.route = "POST /materials" /\ resp.status = 201) =>
           /\ materialSeq \in DOMAIN materials
           /\ materials[materialSeq].supplierId = req.user

\* A material was created from a body naming another partner as supplier, while the
\* Vehicle table holds a row created the same way.
C2_Witness ==
    /\ req.route = "POST /materials"
    /\ resp.status = 201
    /\ Has(req.body, "supplierId")
    /\ req.body.supplierId # req.user
    /\ materials[materialSeq].supplierId = req.user
    /\ DOMAIN vehicles # {}

\* Input a mutating request must not carry: a negative price, a create body without
\* its price, an availability flag that is no boolean.
MalformedInput(r) ==
    \/ /\ r.route \in {"POST /vehicles", "PUT /vehicles/:id"}
       /\ Has(r.body, "pricePerHour")
       /\ r.body.pricePerHour < 0
    \/ /\ r.route \in {"POST /materials", "PUT /materials/:id"}
       /\ Has(r.body, "pricePerUnit")
       /\ r.body.pricePerUnit < 0
    \/ r.route = "POST /vehicles" /\ ~Has(r.body, "pricePerHour")
    \/ r.route = "POST /materials" /\ ~Has(r.body, "pricePerUnit")
    \/ /\ r.route = "POST /vehicles/:id/availability"
       /\ (Has(r.body, "isAvailable") => r.body.isAvailable \notin {"true", "false"})

\* C3: a POST, PUT or availability request with malformed or out-of-range input is
\* answered 400 with the fields in violation, and no row is created or changed.
C3_MalformedIsRejected ==
    [][MalformedInput(req') =>
           /\ resp'.status = 400
           /\ resp'.body.errors # {}
           /\ UNCHANGED tables]_vars

\* C4: a PUT, DELETE or availability request answered 403 or 404 leaves both tables
\* as they were.
C4_RefusedLeavesStore ==
    [][(req'.route \in OwnerRoutes /\ resp'.status \in {403, 404}) =>
           UNCHANGED tables]_vars

\* A partner was refused the deletion of another partner's vehicle, which is still
\* stored beside a second vehicle.
C4_Witness ==
    /\ req.route = "DELETE /vehicles/:id"
    /\ resp.status = 403
    /\ req.id \in DOMAIN vehicles
    /\ vehicles[req.id].ownerId # req.user
    /\ Cardinality(DOMAIN vehicles) = 2

(***************************************************************************)
(* Query strings.  A numeric parameter is the sequence of its characters,  *)
(* written [-+]digits; a parameter that is only compared is a string.      *)
(***************************************************************************)
TextParams == {"category", "city", "state", "search", "sort"}

Digits == <<"0", "1", "2", "3", "4", "5", "6", "7", "8", "9">>

IsDigit(c) == \E i \in 1..10 : Digits[i] = c

DigitValue(c) == (CHOOSE i \in 1..10 : Digits[i] = c) - 1

RECURSIVE DecimalValue(_)
DecimalValue(ds) ==
    IF ds = <<>> THEN 0
    ELSE 10 * DecimalValue(SubSeq(ds, 1, Len(ds) - 1)) + DigitValue(ds[Len(ds)])

\* The string without its sign.
Unsigned(s) == IF s # <<>> /\ s[1] \in {"-", "+"} THEN Tail(s) ELSE s

Sign(s) == IF s # <<>> /\ s[1] = "-" THEN -1 ELSE 1

\* The longest prefix of s made of digits.
LeadingDigits(s) ==
    LET n == CHOOSE k \in 0..Len(s) :
                 /\ \A i \in 1..k : IsDigit(s[i])
                 /\ k = Len(s) \/ ~IsDigit(s[k + 1])
    IN  SubSeq(s, 1, n)

NaN == [nan |-> TRUE, value |-> 0]
Number(n) == [nan |-> FALSE, value |-> n]

\* parseInt(req.query[f]), parseFloat(req.query[f]): NaN for an absent parameter
\* and for a string that starts with no digit.
parseNumber(q, f) ==
    IF ~Has(q, f) THEN NaN
    ELSE LET ds == LeadingDigits(Unsigned(q[f]))
         IN  IF ds = <<>> THEN NaN ELSE Number(Sign(q[f]) * DecimalValue(ds))

\* x || d: NaN and 0 are falsy.
OrElse(x, d) == IF x.nan \/ x.value = 0 THEN d ELSE x.value

\* if (req.query[f]): a parameter that is present and not the empty string.
Truthy(q, f) == Has(q, f) /\ q[f] # (IF f \in TextParams THEN "" ELSE <<>>)

\* The whole string is [-+]digits.
IsNumeral(s) ==
    /\ Unsigned(s) # <<>>
    /\ \A i \in 1..Len(Unsigned(s)) : IsDigit(Unsigned(s)[i])

NumeralValue(s) == Sign(s) * DecimalValue(Unsigned(s))

\* query(f).optional().isInt({ min })
OptionalIsIntMin(q, f, min) ==
    Has(q, f) => IsNumeral(q[f]) /\ NumeralValue(q[f]) >= min

\* query(f).optional().isInt({ min, max })
OptionalIsIntRange(q, f, min, max) ==
    Has(q, f) => IsNumeral(q[f]) /\ NumeralValue(q[f]) >= min /\ NumeralValue(q[f]) <= max

\* query(f).optional().isFloat({ min: 0 })
OptionalIsFloatMin(q, f, min) ==
    Has(q, f) => IsNumeral(q[f]) /\ NumeralValue(q[f]) >= min

\* query(f).optional().isIn(values)
OptionalIsIn(q, f, values) == Has(q, f) => q[f] \in values

\* query(f).optional().isLength({ min: 1 })
OptionalIsLengthMin1(q, f) == Has(q, f) => q[f] # ""

VehicleCategories ==
    {"excavator", "truck", "crane", "bulldozer", "loader", "dump-truck",
     "concrete-mixer", "other"}

MaterialCategories ==
    {"sand", "gravel", "steel", "concrete", "bricks", "timber", "soil", "stone", "other"}

MaxLimit == 100
DefaultPage == 1
DefaultLimit == 10

\* validationResult(req) of GET /api/vehicles
VehicleListErrors(q) ==
    {f \in {"page"} : ~OptionalIsIntMin(q, f, 1)}
    \cup {f \in {"limit"} : ~OptionalIsIntRange(q, f, 1, MaxLimit)}
    \cup {f \in {"category"} : ~OptionalIsIn(q, f, VehicleCategories)}
    \cup {f \in {"minPriceHour", "maxPriceHour", "minPriceDay", "maxPriceDay"} :
              ~OptionalIsFloatMin(q, f, 0)}
    \cup {f \in {"city", "state", "search"} : ~OptionalIsLengthMin1(q, f)}

\* validationResult(req) of GET /api/materials
MaterialListErrors(q) ==
    {f \in {"page"} : ~OptionalIsIntMin(q, f, 1)}
    \cup {f \in {"limit"} : ~OptionalIsIntRange(q, f, 1, MaxLimit)}
    \cup {f \in {"category"} : ~OptionalIsIn(q, f, MaterialCategories)}
    \cup {f \in {"minPrice", "maxPrice"} : ~OptionalIsFloatMin(q, f, 0)}
    \cup {f \in {"search"} : ~OptionalIsLengthMin1(q, f)}

(***************************************************************************)
(* The listing endpoints                                                   *)
(***************************************************************************)
\* obj[f], or {} for a property obj has not ({ ...undefined } spreads nothing).
Field(obj, f) == IF Has(obj, f) THEN obj[f] ELSE EmptyObject

\* where[f] = { ...where[f], [op]: parseFloat(req.query[param]) } when the parameter
\* is truthy.
WithBound(where, q, param, f, op) ==
    IF Truthy(q, param)
    THEN Spread(where, f :> Spread(Field(where, f), op :> parseNumber(q, param).value))
    ELSE where

\* where.category = req.query.category when the parameter is truthy.
WithCategory(where, q) ==
    IF Truthy(q, "category") THEN Spread(where, [category |-> q.category]) ELSE where

\* The filter object of GET /api/vehicles without its first property.
VehicleWhereNoStatus(q) ==
    LET w1 == WithCategory(EmptyObject, q)
        w2 == WithBound(w1, q, "minPriceHour", "pricePerHour", "gte")
        w3 == WithBound(w2, q, "maxPriceHour", "pricePerHour", "lte")
        w4 == WithBound(w3, q, "minPriceDay", "pricePerDay", "gte")
    IN  WithBound(w4, q, "maxPriceDay", "pricePerDay", "lte")

\* The filter object `where` of GET /api/vehicles.
VehicleWhere(q) ==
    LET w0 == [status |-> "active"]
        w1 == WithCategory(w0, q)
        w2 == WithBound(w1, q, "minPriceHour", "pricePerHour", "gte")
        w3 == WithBound(w2, q, "maxPriceHour", "pricePerHour", "lte")
        w4 == WithBound(w3, q, "minPriceDay", "pricePerDay", "gte")
    IN  WithBound(w4, q, "maxPriceDay", "pricePerDay", "lte")

\* `filter` is declared nowhere in the vehicles router: the three assignments to it
\* throw a ReferenceError.
VehicleListThrows(q) == Truthy(q, "city") \/ Truthy(q, "state") \/ Truthy(q, "search")

DefaultOrder == <<<<"featured", "DESC">>, <<"rating", "DESC">>>>

\* The order array of GET /api/vehicles.
VehicleOrder(q) ==
    LET sort == IF Has(q, "sort") THEN q.sort ELSE ""
    IN  CASE sort = "price_hour_asc" -> <<<<"pricePerHour", "ASC">>>>
          [] sort = "price_hour_desc" -> <<<<"pricePerHour", "DESC">>>>
          [] sort = "price_day_asc" -> <<<<"pricePerDay", "ASC">>>>
          [] sort = "price_day_desc" -> <<<<"pricePerDay", "DESC">>>>
          [] sort = "rating" -> <<<<"rating", "DESC">>>>
          [] sort = "newest" -> <<<<"createdAt", "DESC">>>>
          [] OTHER -> DefaultOrder

\* The filter object `where` of GET /api/materials, as far as it is built.
MaterialWhere(q) == WithCategory([isAvailable |-> TRUE], q)

\* `Op` is declared nowhere in the materials router: the two price branches throw a
\* ReferenceError.
MaterialListThrows(q) == Truthy(q, "minPrice") \/ Truthy(q, "maxPrice")

\* The order array of GET /api/materials.
MaterialOrder(q) ==
    LET sort == IF Has(q, "sort") THEN q.sort ELSE ""
    IN  CASE sort = "price_asc" -> <<<<"pricePerUnit", "ASC">>>>
          [] sort = "price_desc" -> <<<<"pricePerUnit", "DESC">>>>
          [] sort = "rating" -> <<<<"rating", "DESC">>>>
          [] sort = "newest" -> <<<<"createdAt", "DESC">>>>
          [] OTHER -> DefaultOrder

RangeFields == {"pricePerHour", "pricePerDay", "pricePerUnit"}

\* The row satisfies every property of the filter object (findAndCountAll's where).
Matches(row, where) ==
    \A f \in DOMAIN where :
        /\ Has(row, f)
        /\ IF f \in RangeFields
           THEN /\ Has(where[f], "gte") => row[f] >= where[f].gte
                /\ Has(where[f], "lte") => row[f] <= where[f].lte
           ELSE row[f] = where[f]

Matching(table, where) == {id \in DOMAIN table : Matches(table[id], where)}

\* The rows of the page window; storage's order stands as primary-key order.
Window(table, where, offset, limit) ==
    LET m == Matching(table, where)
        rank(id) == Cardinality({j \in m : j < id})
    IN  {id \in m : rank(id) >= offset /\ rank(id) < offset + limit}

\* Math.floor(count / limit)
PagesFloor(count, limit) == count \div limit

\* Math.ceil(count / limit)
Pages(count, limit) == (count + limit - 1) \div limit

\* (page - 1) * limit
Offset(page, limit) == (page - 1) * limit

\* res.json({ success: true, data, pagination: { page, limit, total, pages } })
ListingPage(rows, page, limit, count) ==
    [status |-> 200, kind |-> "json",
     body |-> [success |-> TRUE, data |-> rows,
               pagination |-> [page |-> page, limit |-> limit, total |-> count,
                               pages |-> Pages(count, limit)]]]

\* router.get('/') of the vehicles router
GetVehicles ==
    /\ req.route = "GET /vehicles"
    /\ resp = NoResponse
    /\ UNCHANGED <<tables, req, userVars>>
    /\ LET q == req.query
           page == OrElse(parseNumber(q, "page"), DefaultPage)
           limit == OrElse(parseNumber(q, "limit"), DefaultLimit)
           offset == Offset(page, limit)
           where == VehicleWhere(q)
       IN  IF VehicleListErrors(q) # {}
           THEN /\ resp' = ValidationFailed(VehicleListErrors(q))
                /\ UNCHANGED lastQuery
           ELSE IF VehicleListThrows(q)
           THEN /\ resp' = Failure(500, "Server error while fetching vehicles")
                /\ UNCHANGED lastQuery
           ELSE /\ lastQuery' = [model |-> "Vehicle", where |-> where,
                                 order |-> VehicleOrder(q), offset |-> offset,
                                 limit |-> limit]
                /\ resp' = ListingPage(Window(vehicles, where, offset, limit), page, limit,
                                       Cardinality(Matching(vehicles, where)))

\* router.get('/') of the materials router
GetMaterials ==
    /\ req.route = "GET /materials"
    /\ resp = NoResponse
    /\ UNCHANGED <<tables, req, userVars>>
    /\ LET q == req.query
           page == OrElse(parseNumber(q, "page"), DefaultPage)
           limit == OrElse(parseNumber(q, "limit"), DefaultLimit)
           offset == Offset(page, limit)
           where == MaterialWhere(q)
       IN  IF MaterialListErrors(q) # {}
           THEN /\ resp' = ValidationFailed(MaterialListErrors(q))
                /\ UNCHANGED lastQuery
           ELSE IF MaterialListThrows(q)
           THEN /\ resp' = Failure(500, "Server error while fetching materials")
                /\ UNCHANGED lastQuery
           ELSE /\ lastQuery' = [model |-> "Material", where |-> where,
                                 order |-> MaterialOrder(q), offset |-> offset,
                                 limit |-> limit]
                /\ resp' = ListingPage(Window(materials, where, offset, limit), page, limit,
                                       Cardinality(Matching(materials, where)))

(***************************************************************************)
(* SpecList: one listing request against tables that hold rows             *)
(***************************************************************************)
\* Rows each table holds at most.
MaxRows == 3

\* The i-th vehicle stored: every third one is not active.
StoredVehicle(i) ==
    [ownerId |-> "p1", status |-> IF i % 3 = 0 THEN "inactive" ELSE "active",
     category |-> IF i % 2 = 1 THEN "truck" ELSE "crane",
     pricePerHour |-> 10 * i, pricePerDay |-> 100 * i]

\* The i-th material stored: every third one is not available.
StoredMaterial(i) ==
    [supplierId |-> "p1", isAvailable |-> (i % 3 # 0),
     category |-> IF i % 2 = 1 THEN "sand" ELSE "steel",
     pricePerUnit |-> 10 * i]

PageParams == Optional("page", {<<"1">>, <<"2">>, <<"0", "3">>, <<"0">>})
LimitParams == Optional("limit", {<<"1">>, <<"2">>, <<"1", "0", "0">>, <<"1", "0", "1">>})
SortParams == Optional("sort", {"newest", "cheapest"})

\* Vehicle listings that vary the page window, over a filter or two.
VehiclePagingQueries ==
    {p @@ l @@ c @@ h1 @@ so :
        p \in PageParams, l \in LimitParams,
        c \in Optional("category", {"truck", "boat"}),
        h1 \in Optional("minPriceHour", {<<"0">>, <<"2", "0">>}),
        so \in SortParams}

\* Vehicle listings that vary the filters, on the default page window.
VehicleFilterQueries ==
    {c @@ h1 @@ h2 @@ d1 @@ d2 @@ ci @@ st @@ se @@ so :
        c \in Optional("category", {"truck", "boat"}),
        h1 \in Optional("minPriceHour", {<<"0">>, <<"2", "0">>}),
        h2 \in Optional("maxPriceHour", {<<"2", "0">>, <<"-", "1">>}),
        d1 \in Optional("minPriceDay", {<<"1", "5", "0">>}),
        d2 \in Optional("maxPriceDay", {<<"2", "5", "0">>}),
        ci \in Optional("city", {"pune"}),
        st \in Optional("state", {"goa"}),
        se \in Optional("search", {"jcb"}),
        so \in SortParams}

VehicleQueries == VehiclePagingQueries \cup VehicleFilterQueries

MaterialQueries ==
    {p @@ l @@ c @@ m1 @@ m2 @@ se @@ so :
        p \in PageParams, l \in LimitParams,
        c \in Optional("category", {"sand", "boat"}),
        m1 \in Optional("minPrice", {<<"0">>, <<"2", "0">>}),
        m2 \in Optional("maxPrice", {<<"2", "0">>, <<"-", "1">>}),
        se \in Optional("search", {"river"}),
        so \in SortParams}

ListRequests ==
    {[route |-> "GET /vehicles", query |-> q] : q \in VehicleQueries}
    \cup {[route |-> "GET /materials", query |-> q] : q \in MaterialQueries}

InitList ==
    /\ \E n \in 0..MaxRows :
           /\ vehicles = [i \in 1..n |-> StoredVehicle(i)]
           /\ materials = [i \in 1..n |-> StoredMaterial(i)]
           /\ vehicleSeq = n
           /\ materialSeq = n
    /\ req \in ListRequests
    /\ resp = NoResponse
    /\ lastQuery = NoQuery
    /\ users = EmptyObject
    /\ serviceRequests = {}
    /\ inflight = EmptyObject

NextList == GetVehicles \/ GetMaterials

SpecList == InitList /\ [][NextList]_vars

(***************************************************************************)
(* Properties of the listing endpoints (checked under SpecList)            *)
(***************************************************************************)
\* The request has been answered, and not as a validation failure.
Accepted == resp # NoResponse /\ resp.status # 400

LocationAndSearchParams == {"city", "state", "search"}

PriceParams ==
    {"minPriceHour", "maxPriceHour", "minPriceDay", "maxPriceDay", "minPrice", "maxPrice"}

FilterParams == {"category"} \cup PriceParams \cup LocationAndSearchParams

\* <<route, minimum parameter, maximum parameter, price field>>
PriceFilters ==
    {<<"GET /vehicles", "minPriceHour", "maxPriceHour", "pricePerHour">>,
     <<"GET /vehicles", "minPriceDay", "maxPriceDay", "pricePerDay">>,
     <<"GET /materials", "minPrice", "maxPrice", "pricePerUnit">>}

\* C5: for each price field the predicate handed to storage holds a '>= minimum'
\* exactly when a minimum is supplied and a '<= maximum' exactly when a maximum is,
\* both when both are, and the listing is answered with success.  (Stated for the
\* requests that carry no location filter and no search term.)
C5_PriceBoundsReachStorage ==
    (Accepted /\ DOMAIN req.query \cap LocationAndSearchParams = {}) =>
        /\ resp.status = 200
        /\ \A pf \in PriceFilters :
               pf[1] = req.route =>
                   LET c == Field(lastQuery.where, pf[4])
                   IN  /\ Has(c, "gte") <=> Has(req.query, pf[2])
                       /\ Has(c, "lte") <=> Has(req.query, pf[3])
                       /\ Has(req.query, pf[2]) => c.gte = NumeralValue(req.query[pf[2]])
                       /\ Has(req.query, pf[3]) => c.lte = NumeralValue(req.query[pf[3]])

\* The property of the filter object that constrains a location or search parameter.
ConstraintKey(param) ==
    CASE param = "city" -> "location.city"
      [] param = "state" -> "location.state"
      [] param = "search" -> "$text"

\* C6: a listing that supplies a city, a state or a search term hands storage a
\* predicate that holds the matching constraint beside the other active ones.
\* (Stated for the requests that carry no price bound.)
C6_TextFiltersReachStorage ==
    (Accepted /\ DOMAIN req.query \cap PriceParams = {}) =>
        \A param \in DOMAIN req.query \cap LocationAndSearchParams :
            /\ lastQuery # NoQuery
            /\ Has(lastQuery.where, ConstraintKey(param))

\* The availability constraint of each model.
Availability(model) ==
    IF model = "Vehicle" THEN [status |-> "active"] ELSE [isAvailable |-> TRUE]

HoldsAvailability(where, model) ==
    \A f \in DOMAIN Availability(model) :
        Has(where, f) /\ where[f] = Availability(model)[f]

NoFilters(q) == DOMAIN q \cap FilterParams = {}

\* C7 as claimed: every predicate handed to storage holds the availability constraint;
\* with no filters supplied the predicate is that constraint alone and the ordering is
\* featured descending, then rating descending.
C7_NoFiltersDefaultOrder ==
    lastQuery # NoQuery =>
        /\ HoldsAvailability(lastQuery.where, lastQuery.model)
        /\ NoFilters(req.query) =>
               /\ lastQuery.where = Availability(lastQuery.model)
               /\ lastQuery.order = DefaultOrder

\* C7 as amended: every predicate handed to storage holds the availability constraint;
\* with no filters supplied the predicate is that constraint alone, and with no sort
\* key supplied either the ordering is featured descending, then rating descending.
C7_AvailabilityAlwaysApplied ==
    lastQuery # NoQuery =>
        /\ HoldsAvailability(lastQuery.where, lastQuery.model)
        /\ NoFilters(req.query) => lastQuery.where = Availability(lastQuery.model)
        /\ (NoFilters(req.query) /\ ~Has(req.query, "sort")) =>
               lastQuery.order = DefaultOrder

\* A vehicle listing with no filter and no sort key reached storage.
C7_Witness ==
    /\ req.route = "GET /vehicles"
    /\ NoFilters(req.query)
    /\ ~Has(req.query, "sort")
    /\ lastQuery # NoQuery
    /\ lastQuery.where = [status |-> "active"]
    /\ lastQuery.order = DefaultOrder
    /\ resp.status = 200

\* The decimal numeral of a natural number.
RECURSIVE ToDecimal(_)
ToDecimal(n) ==
    IF n < 10 THEN <<Digits[n + 1]>> ELSE Append(ToDecimal(n \div 10), Digits[(n % 10) + 1])

\* The numeral without its leading zeros.
RECURSIVE StripZeros(_)
StripZeros(s) == IF Len(s) > 1 /\ s[1] = "0" THEN StripZeros(Tail(s)) ELSE s

\* The parameter f of the query is a numeral of n.
Denotes(q, f, n) == Has(q, f) /\ StripZeros(q[f]) = ToDecimal(n)

MaxPageAsked == 3

\* C8: a successful listing asks storage for offset (page-1)*limit and reports
\* {page, limit, total, pages} with pages the least count of pages of `limit` rows
\* that hold `total` rows (0 exactly when total is 0, never negative); the page asked
\* for is reported as asked, also beyond the last page.
C8_Pagination ==
    (resp # NoResponse /\ resp.status = 200) =>
        LET pg == resp.body.pagination
        IN  /\ \A n \in 1..MaxPageAsked : Denotes(req.query, "page", n) => pg.page = n
            /\ \A l \in 1..MaxLimit : Denotes(req.query, "limit", l) => pg.limit = l
            /\ lastQuery.offset = (pg.page - 1) * pg.limit
            /\ lastQuery.limit = pg.limit
            /\ pg.total >= 0
            /\ pg.pages >= 0
            /\ pg.pages * pg.limit >= pg.total
            /\ pg.pages > 0 => (pg.pages - 1) * pg.limit < pg.total
            /\ pg.pages = 0 <=> pg.total = 0

\* Page 2 of a single matching row, two rows to the page: beyond the last page, and
\* the count of pages rounded up.
C8_Witness ==
    /\ resp # NoResponse
    /\ resp.status = 200
    /\ Denotes(req.query, "page", 2)
    /\ Denotes(req.query, "limit", 2)
    /\ resp.body.pagination = [page |-> 2, limit |-> 2, total |-> 1, pages |-> 1]
    /\ lastQuery.offset = 2
    /\ resp.body.data = {}

(***************************************************************************)
(* /api/users.  A handler runs up to its next await in one step; the       *)
(* storage call it awaits then answers, or throws, in a later step, and    *)
(* steps of other requests come in between.                                *)
(***************************************************************************)
\* Requests in flight at once.
MaxInflight == 2

Slots == 1..MaxInflight

\* req.user.id of the acting users (auth passed).
UserIds == {"u1", "u2"}

\* Addresses isEmail() accepts: the two stored at the start and one held by nobody.
WellFormedEmails == {"a@x.io", "b@x.io", "c@x.io"}

\* Bodies asking for the address no stored user holds at the start (held by another
\* account once one request for it has gone through), for a malformed one, and one
\* without a name.
ProfileBodies ==
    {[name |-> "Ann", email |-> e] : e \in {"c@x.io", "nobody"}}
    \cup {[name |-> "", email |-> "a@x.io"]}

Idle == [pc |-> "idle"]

\* body('name', ...).not().isEmpty(), body('email', ...).isEmail()
ProfileErrors(b) ==
    {f \in {"name"} : b.name = ""} \cup {f \in {"email"} : b.email \notin WellFormedEmails}

\* res.status(400).json({ errors: errors.array() })
ProfileValidationFailed(errs) ==
    [status |-> 400, kind |-> "json", body |-> [errors |-> errs]]

\* res.status(500).send('Server Error')
ServerErrorText == [status |-> 500, kind |-> "text", body |-> "Server Error"]

\* res.json({ success: true, user })
SuccessUser(row) ==
    [status |-> 200, kind |-> "json", body |-> [success |-> TRUE, user |-> row]]

\* User.findByPk(id): the row, or null (here the empty object).
findByPk(id) == IF id \in DOMAIN users THEN users[id] ELSE EmptyObject

\* User.findOne({ where: { email, id: { [Op.ne]: id } } }) finds a row.
EmailTakenByOther(email, id) ==
    \E o \in DOMAIN users : o # id /\ users[o].email = email

\* The request of slot s is answered with r, and the slot is free again.
Respond(s, r) ==
    /\ req' = [route |-> inflight[s].route, user |-> inflight[s].user,
               body |-> inflight[s].body]
    /\ resp' = r
    /\ inflight' = [inflight EXCEPT ![s] = Idle]

\* The request of slot s goes on to its next await.
Goto(s, pc) ==
    /\ inflight' = [inflight EXCEPT ![s].pc = pc]
    /\ UNCHANGED <<req, resp>>

\* A request arrives: auth has resolved req.user from a stored user.
Arrives(s, route, u, b, pc) ==
    /\ inflight[s] = Idle
    /\ u \in DOMAIN users
    /\ inflight' = [inflight EXCEPT ![s] = [pc |-> pc, route |-> route, user |-> u,
                                            body |-> b]]
    /\ UNCHANGED <<req, resp>>

\* router.get('/profile'): up to await User.findByPk
GetProfile(s, u) ==
    /\ Arrives(s, "GET /users/profile", u, EmptyObject, "findByPk")
    /\ UNCHANGED <<tables, lastQuery, users, serviceRequests>>

\* router.get('/profile'): User.findByPk answers or throws
GetProfileFound(s, ok) ==
    /\ inflight[s].pc = "findByPk"
    /\ inflight[s].route = "GET /users/profile"
    /\ Respond(s, IF ok THEN SuccessUser(findByPk(inflight[s].user)) ELSE ServerErrorText)
    /\ UNCHANGED <<tables, lastQuery, users, serviceRequests>>

\* router.put('/profile'): validation, up to await User.findOne
PutProfile(s, u, b) ==
    /\ inflight[s] = Idle
    /\ u \in DOMAIN users
    /\ UNCHANGED <<tables, lastQuery, users, serviceRequests>>
    /\ IF ProfileErrors(b) # {}
       THEN /\ req' = [route |-> "PUT /users/profile", user |-> u, body |-> b]
            /\ resp' = ProfileValidationFailed(ProfileErrors(b))
            /\ UNCHANGED inflight
       ELSE Arrives(s, "PUT /users/profile", u, b, "findOne")

\* router.put('/profile'): User.findOne answers or throws
PutProfileChecked(s, ok) ==
    /\ inflight[s].pc = "findOne"
    /\ UNCHANGED <<tables, lastQuery, users, serviceRequests>>
    /\ IF ~ok
       THEN Respond(s, ServerErrorText)
       ELSE IF EmailTakenByOther(inflight[s].body.email, inflight[s].user)
       THEN Respond(s, Failure(400, "Email is already registered to another account"))
       ELSE Goto(s, "update")

\* router.put('/profile'): req.user.update({ name, email, phone, address }) answers
\* or throws; a row deleted meanwhile is not written.
PutProfileUpdated(s, ok) ==
    /\ inflight[s].pc = "update"
    /\ UNCHANGED <<tables, lastQuery, serviceRequests>>
    /\ IF ~ok
       THEN Respond(s, ServerErrorText) /\ UNCHANGED users
       ELSE /\ users' = IF inflight[s].user \in DOMAIN users
                        THEN [users EXCEPT ![inflight[s].user] =
                                  UpdateRow(@, inflight[s].body)]
                        ELSE users
            /\ Goto(s, "findByPk")

\* router.put('/profile'): User.findByPk answers or throws
PutProfileFound(s, ok) ==
    /\ inflight[s].pc = "findByPk"
    /\ inflight[s].route = "PUT /users/profile"
    /\ Respond(s, IF ok THEN SuccessUser(findByPk(inflight[s].user)) ELSE ServerErrorText)
    /\ UNCHANGED <<tables, lastQuery, users, serviceRequests>>

\* router.get('/orders'): Material and Vehicle are declared nowhere in the users
\* router, so building the include list throws a ReferenceError before any await.
GetOrders(s, u) ==
    /\ inflight[s] = Idle
    /\ u \in DOMAIN users
    /\ req' = [route |-> "GET /users/orders", user |-> u, body |-> EmptyObject]
    /\ resp' = ServerErrorText
    /\ UNCHANGED <<tables, lastQuery, users, serviceRequests, inflight>>

\* The destroy calls of router.delete('/account'), user row first.
AccountStepsUserFirst == <<"User.destroy", "ServiceRequest.destroy">>

\* The destroy calls of router.delete('/account'), in the order it awaits them.
AccountSteps == <<"ServiceRequest.destroy", "User.destroy">>

\* The position of an awaited destroy call among the handler's.
StepIndex(pc) == CHOOSE i \in 1..Len(AccountSteps) : AccountSteps[i] = pc

\* router.delete('/account'): up to the first await
DeleteAccount(s, u) ==
    /\ Arrives(s, "DELETE /users/account", u, EmptyObject, AccountSteps[1])
    /\ UNCHANGED <<tables, lastQuery, users, serviceRequests>>

\* router.delete('/account'): the awaited destroy call answers or throws
DeleteAccountStep(s, ok) ==
    /\ inflight[s].pc \in {"ServiceRequest.destroy", "User.destroy"}
    /\ UNCHANGED <<tables, lastQuery>>
    /\ IF ~ok
       THEN Respond(s, ServerErrorText) /\ UNCHANGED <<users, serviceRequests>>
       ELSE /\ IF inflight[s].pc = "ServiceRequest.destroy"
               THEN /\ serviceRequests' =
                          {r \in serviceRequests : r.userId # inflight[s].user}
                    /\ UNCHANGED users
               ELSE /\ users' = Destroy(users, inflight[s].user)
                    /\ UNCHANGED serviceRequests
            /\ IF StepIndex(inflight[s].pc) < Len(AccountSteps)
               THEN Goto(s, AccountSteps[StepIndex(inflight[s].pc) + 1])
               ELSE Respond(s, SuccessMessage("User account deleted successfully"))

(***************************************************************************)
(* SpecUsers: the /api/users endpoints over two users and their requests   *)
(***************************************************************************)
InitUsers ==
    /\ vehicles = EmptyObject
    /\ materials = EmptyObject
    /\ vehicleSeq = 0
    /\ materialSeq = 0
    /\ lastQuery = NoQuery
    /\ req = NoRequest
    /\ resp = NoResponse
    /\ users = ("u1" :> [email |-> "a@x.io", name |-> "Ann"])
               @@ ("u2" :> [email |-> "b@x.io", name |-> "Ann"])
    /\ serviceRequests = {[id |-> 1, userId |-> "u1"], [id |-> 2, userId |-> "u1"],
                          [id |-> 3, userId |-> "u2"]}
    /\ inflight = [s \in Slots |-> Idle]

NextUsers ==
    \/ \E s \in Slots, u \in UserIds : GetProfile(s, u)
    \/ \E s \in Slots, ok \in BOOLEAN : GetProfileFound(s, ok)
    \/ \E s \in Slots, u \in UserIds, b \in ProfileBodies : PutProfile(s, u, b)
    \/ \E s \in Slots, ok \in BOOLEAN : PutProfileChecked(s, ok)
    \/ \E s \in Slots, ok \in BOOLEAN : PutProfileUpdated(s, ok)
    \/ \E s \in Slots, ok \in BOOLEAN : PutProfileFound(s, ok)
    \/ \E s \in Slots, u \in UserIds : GetOrders(s, u)
    \/ \E s \in Slots, u \in UserIds : DeleteAccount(s, u)
    \/ \E s \in Slots, ok \in BOOLEAN : DeleteAccountStep(s, ok)

SpecUsers == InitUsers /\ [][NextUsers]_vars

(***************************************************************************)
(* Properties of the /api/users endpoints (checked under SpecUsers)        *)
(***************************************************************************)
\* C9: whenever a user row leaves the User table, no service request of that user is
\* stored, neither before the step nor after it; this in every interleaving of the
\* requests and whichever storage calls throw.
C9_RequestsRemovedBeforeUser ==
    [][\A u \in DOMAIN users :
           u \notin DOMAIN users' =>
               /\ \A r \in serviceRequests : r.userId # u
               /\ \A r \in serviceRequests' : r.userId # u]_vars

\* An account deletion has completed while another request was in flight: the user
\* row is gone, none of the user's service requests is left, another user's is.
C9_Witness ==
    /\ req.route = "DELETE /users/account"
    /\ resp.status = 200
    /\ req.user \notin DOMAIN users
    /\ \A r \in serviceRequests : r.userId # req.user
    /\ serviceRequests # {}
    /\ \E s \in Slots : inflight[s] # Idle

\* C10: every response is a JSON envelope with a boolean `success`, and every error
\* response carries `message` as well.
C10_EveryResponseIsEnvelope ==
    resp # NoResponse =>
        /\ resp.kind = "json"
        /\ Has(resp.body, "success")
        /\ resp.body.success \in BOOLEAN
        /\ resp.status >= 400 => Has(resp.body, "message")

(***************************************************************************)
(* Ownership over sequences of requests (checked under Spec)               *)
(***************************************************************************)
\* C11: over any sequence of POST, PUT, DELETE and availability requests, a row that
\* enters a table has the creating principal's partnerId in its owner field (ownerId,
\* supplierId), and no later request changes the owner field of a stored row.
C11_OwnerNeverChanges ==
    [][/\ \A id \in DOMAIN vehicles' :
              vehicles'[id].ownerId = IF id \in DOMAIN vehicles
                                      THEN vehicles[id].ownerId
                                      ELSE req'.user
       /\ \A id \in DOMAIN materials' :
              materials'[id].supplierId = IF id \in DOMAIN materials
                                          THEN materials[id].supplierId
                                          ELSE req'.user]_vars

(***************************************************************************)
(* Email uniqueness under interleaving (checked under SpecUsers)           *)
(***************************************************************************)
\* C12: in every interleaving of PUT /users/profile requests, no two user rows hold
\* the same email, and a request whose email User.findOne finds held by another
\* account is answered 400 'Email is already registered to another account' and
\* leaves the User table as it was.
C12_EmailsStayUnique ==
    [][/\ \A a, b \in DOMAIN users' : a # b => users'[a].email # users'[b].email
       /\ \A s \in Slots :
              (/\ inflight[s].pc = "findOne"
               /\ inflight'[s] = Idle
               /\ resp'.status # 500
               /\ EmailTakenByOther(inflight[s].body.email, inflight[s].user))
              => /\ resp' = Failure(400, "Email is already registered to another account")
                 /\ users' = users]_vars

====
